---- MODULE Spec2Model ----
(***************************************************************************)
(* Niche-Notify: the monitors table, the HTTP endpoints of api.py and the  *)
(* change-detection batch process_once, run by the threads of the API's    *)
(* thread pool.  Texts are sequences of one-character strings.             *)
(***************************************************************************)
EXTENDS Integers, Sequences, FiniteSets, TLC

\* ------------------------------------------------------------------ bounds
\* ids the SERIAL column hands out before the model stops inserting: under
\* SpecBatch (one batch at a time), and under Spec (overlapping batches)
MaxId == 2
MaxPoolId == 1
\* largest reading of the database clock
MaxTime == 1

\* ------------------------------------------------------------------ values
\* request threads of the API's pool that can each run one handler
Threads == {"t1", "t2"}

\* Python's None, as a text no extraction can produce
None == <<"None">>

SP == " "

\* the bodies POST /monitors is called with; ownerKey is sent by the caller
\* but is no field of MonitorIn
MonitorInputs ==
    { [url |-> "u1", css_selector |-> "#price", user_email |-> "e1", ownerKey |-> "k1"],
      [url |-> "u2", css_selector |-> "#price", user_email |-> "e2", ownerKey |-> "k2"],
      [url |-> "u2", css_selector |-> "[",      user_email |-> "e2", ownerKey |-> "k2"] }

OwnerKeys == {"k1", "k2"}

\* selectors soupsieve cannot parse
BadSelectors == {"["}

\* what a URL can answer: the strings of the first element the selector
\* matches, in document order, or no matching element
Htmls ==
    { [matched |-> FALSE, strings |-> << >>],
      [matched |-> TRUE,  strings |-> << <<"a">> >>],
      [matched |-> TRUE,  strings |-> << <<SP, "a">>, <<SP>> >>],
      [matched |-> TRUE,  strings |-> << <<"b">> >>],
      [matched |-> TRUE,  strings |-> << <<SP>> >>] }

\* values of the WORKER_SECRET environment variable, and of ?secret=
ConfiguredSecrets == {None, <<>>, <<"s">>}
SuppliedSecrets == {<<"s">>, <<"x">>}

\* ------------------------------------------------------------------ state
VARIABLES
    store,          \* the monitors table: id -> row
    next_id,        \* the sequence behind id SERIAL
    now,            \* latest reading of the database clock
    ownerKey,       \* id -> the ownerKey the creating request carried
    fetched,        \* id -> the text of the record's latest successful fetch,
                    \* None when the store refused to write it
    pending,        \* id -> the notification printed for a change whose store
                    \* write failed, until a write of the record commits
    WORKER_SECRET,  \* the environment variable
    resp,           \* the status of the last HTTP response sent
    pc,             \* per thread: where its handler stands
    monitors,       \* per thread: process_once's listing
    i,              \* per thread: position of the loop in monitors
    new_text,       \* per thread: the extracted text of the current check
    exc,            \* per thread: the exception the current check caught
    sent,           \* per thread: notifications printed by the current check
    failed          \* per thread: ids whose fetch raised in the current batch

vars == <<store, next_id, now, ownerKey, fetched, pending, WORKER_SECRET, resp,
          pc, monitors, i, new_text, exc, sent, failed>>

shared == <<store, next_id, now, ownerKey, fetched, pending>>
locals == <<pc, monitors, i, new_text, exc, sent, failed>>

\* ------------------------------------------------------------------ texts
RECURSIVE LStrip(_)
LStrip(s) == IF s # << >> /\ Head(s) = SP THEN LStrip(Tail(s)) ELSE s

RECURSIVE RStrip(_)
RStrip(s) == IF s # << >> /\ s[Len(s)] = SP THEN RStrip(SubSeq(s, 1, Len(s) - 1)) ELSE s

\* str.strip()
Strip(s) == LStrip(RStrip(s))

\* Tag.get_text(strip=True): every string stripped, the empty ones dropped,
\* the rest joined with no separator
RECURSIVE get_text(_)
get_text(strings) ==
    IF strings = << >> THEN << >>
    ELSE Strip(Head(strings)) \o get_text(Tail(strings))

\* the text of the first match, "" without a match; select_one raises on a
\* selector it cannot parse
extract_with_selector(html, selector) ==
    IF selector \in BadSelectors THEN [raised |-> TRUE, text |-> None]
    ELSE IF ~html.matched THEN [raised |-> FALSE, text |-> << >>]
    ELSE [raised |-> FALSE, text |-> get_text(html.strings)]

\* sha256 of the text, None hashed as "": equal digests only for equal texts
compute_hash(text) == <<"sha256">> \o (IF text = None THEN << >> ELSE text)

\* m.get("last_content") or ""
last_content_of(m) ==
    IF m.last_content = None \/ m.last_content = << >> THEN << >> ELSE m.last_content

\* the comparison with its test of the digests the wrong way round
compare_inverted(last_content, text) ==
    IF Strip(last_content) = << >> THEN "first"
    ELSE IF compute_hash(text) = compute_hash(last_content) THEN "changed"
    ELSE "unchanged"

\* the comparison taking the emptiness of the new text, not of the stored
\* one, for a first run
compare_on_new(last_content, text) ==
    IF Strip(text) = << >> THEN "first"
    ELSE IF compute_hash(text) # compute_hash(last_content) THEN "changed"
    ELSE "unchanged"

\* the comparison writing the record again when nothing changed
compare_touch(last_content, text) ==
    IF Strip(last_content) = << >> THEN "first"
    ELSE IF compute_hash(text) # compute_hash(last_content) THEN "changed"
    ELSE "first"

\* the comparison taking an empty new text for "nothing to compare"
compare_skip_empty(last_content, text) ==
    IF Strip(last_content) = << >> THEN "first"
    ELSE IF text # << >> /\ compute_hash(text) # compute_hash(last_content) THEN "changed"
    ELSE "unchanged"

\* the comparison without its first-run branch
compare_no_first(last_content, text) ==
    IF compute_hash(text) # compute_hash(last_content) THEN "changed"
    ELSE "unchanged"

\* the comparison of process_once: which branch a check takes
compare(last_content, text) ==
    IF Strip(last_content) = << >> THEN "first"
    ELSE IF compute_hash(text) # compute_hash(last_content) THEN "changed"
    ELSE "unchanged"

\* what notify_placeholder prints
notify_placeholder(email, url, old, new) ==
    [email |-> email, url |-> url, old |-> old, new |-> new]

\* no notification
NoAlert == [email |-> "", url |-> "", old |-> None, new |-> None]

\* ------------------------------------------------------------------ store
\* INSERT ... VALUES (url, css_selector, user_email, NULL) RETURNING id, with
\* last_checked_at DEFAULT CURRENT_TIMESTAMP
inserted_row(id, monitor, ts) ==
    [id |-> id, url |-> monitor.url, css_selector |-> monitor.css_selector,
     user_email |-> monitor.user_email, last_content |-> None,
     last_checked_at |-> ts]

\* the UPDATE without its last_checked_at = NOW()
update_content_only(st, monitor_id, new_content, ts) ==
    [id \in DOMAIN st |->
        IF id = monitor_id
        THEN [st[id] EXCEPT !.last_content = new_content]
        ELSE st[id]]

\* the UPDATE as an upsert, which writes a row for an id the table lacks
update_upsert(st, monitor_id, new_content, ts) ==
    [id \in DOMAIN st \cup {monitor_id} |->
        IF id = monitor_id
        THEN [id |-> id, url |-> "", css_selector |-> "", user_email |-> "",
              last_content |-> new_content, last_checked_at |-> ts]
        ELSE st[id]]

\* UPDATE monitors SET last_content = .., last_checked_at = NOW() WHERE id = ..
update_monitor_content(st, monitor_id, new_content, ts) ==
    [id \in DOMAIN st |->
        IF id = monitor_id
        THEN [st[id] EXCEPT !.last_content = new_content, !.last_checked_at = ts]
        ELSE st[id]]

\* DELETE FROM monitors WHERE id = ..
delete_row(st, monitor_id) ==
    [id \in DOMAIN st \ {monitor_id} |-> st[id]]

\* the orders SELECT * FROM monitors can return the rows in
Orders(S) ==
    {o \in [1..Cardinality(S) -> S] : \A a, b \in 1..Cardinality(S) : a # b => o[a] # o[b]}

\* what NOW() can read next
Readings == {r \in {now, now + 1} : r <= MaxTime}

\* ------------------------------------------------------------------ responses
\* resp before any request was answered
NoResponse == 0

\* the gate testing only that a secret was supplied
worker_gate_any(configured, supplied) ==
    IF configured = None \/ configured = << >> THEN 500
    ELSE IF supplied = << >> THEN 403
    ELSE 200

\* the checks run_worker_endpoint makes before it calls process_once
worker_gate(configured, supplied) ==
    IF configured = None \/ configured = << >> THEN 500
    ELSE IF supplied # configured THEN 403
    ELSE 200

\* ------------------------------------------------------------------ Init
Init ==
    /\ store = << >>
    /\ next_id = 1
    /\ now = 0
    /\ ownerKey = << >>
    /\ fetched = << >>
    /\ pending = << >>
    /\ WORKER_SECRET \in ConfiguredSecrets
    /\ resp = NoResponse
    /\ pc = [t \in Threads |-> "idle"]
    /\ monitors = [t \in Threads |-> << >>]
    /\ i = [t \in Threads |-> 0]
    /\ new_text = [t \in Threads |-> None]
    /\ exc = [t \in Threads |-> "none"]
    /\ sent = [t \in Threads |-> << >>]
    /\ failed = [t \in Threads |-> {}]

\* ------------------------------------------------------------------ CRUD
\* GET /monitors
get_monitors_endpoint ==
    /\ \E ok \in BOOLEAN : resp' = IF ok THEN 200 ELSE 500
    /\ UNCHANGED <<shared, WORKER_SECRET, locals>>

\* POST /monitors
add_monitor_endpoint(monitor, cap) ==
    /\ next_id <= cap
    /\ \/ \E ts \in Readings :
            /\ store' = store @@ (next_id :> inserted_row(next_id, monitor, ts))
            /\ ownerKey' = ownerKey @@ (next_id :> monitor.ownerKey)
            /\ fetched' = fetched @@ (next_id :> None)
            /\ pending' = pending @@ (next_id :> NoAlert)
            /\ now' = ts
            /\ next_id' = next_id + 1
            /\ resp' = 200
       \/ /\ resp' = 500
          /\ UNCHANGED shared
    /\ UNCHANGED <<WORKER_SECRET, locals>>

\* the status DELETE /monitors/{id} answers with: the 404 is raised inside the
\* try block and caught by its own "except Exception", which turns it into 500
delete_status(st, monitor_id) ==
    IF monitor_id \in DOMAIN st THEN 200 ELSE 500

\* DELETE /monitors/{monitor_id}; the query's ownerKey is no parameter of the
\* handler
delete_monitor_endpoint(monitor_id, key) ==
    /\ \/ /\ store' = delete_row(store, monitor_id)
          /\ ownerKey' = [id \in DOMAIN ownerKey \ {monitor_id} |-> ownerKey[id]]
          /\ fetched' = [id \in DOMAIN fetched \ {monitor_id} |-> fetched[id]]
          /\ pending' = [id \in DOMAIN pending \ {monitor_id} |-> pending[id]]
          /\ resp' = delete_status(store, monitor_id)
       \/ /\ resp' = 500
          /\ UNCHANGED <<store, ownerKey, fetched, pending>>
    /\ UNCHANGED <<next_id, now, WORKER_SECRET, locals>>

\* ------------------------------------------------------------------ worker
\* POST /worker/run?secret=: the gate, then the call of process_once
run_worker_endpoint(t, supplied) ==
    /\ pc[t] = "idle"
    /\ LET status == worker_gate(WORKER_SECRET, supplied) IN
        IF status = 200
        THEN /\ pc' = [pc EXCEPT ![t] = "list"]
             /\ UNCHANGED resp
        ELSE /\ resp' = status
             /\ UNCHANGED pc
    /\ UNCHANGED <<shared, WORKER_SECRET, monitors, i, new_text, exc, sent, failed>>

\* the handler's thread goes back to the pool
Reply(t, status) ==
    /\ resp' = status
    /\ pc' = [pc EXCEPT ![t] = "idle"]
    /\ monitors' = [monitors EXCEPT ![t] = << >>]
    /\ i' = [i EXCEPT ![t] = 0]
    /\ new_text' = [new_text EXCEPT ![t] = None]
    /\ exc' = [exc EXCEPT ![t] = "none"]
    /\ sent' = [sent EXCEPT ![t] = << >>]
    /\ failed' = [failed EXCEPT ![t] = {}]

\* the listing read with fetchone() for fetchall(): the first row only
get_all_monitors_fetchone(t) ==
    /\ pc[t] = "list"
    /\ \/ \E o \in Orders(DOMAIN store) :
            IF DOMAIN store = {}
            THEN Reply(t, 200)
            ELSE /\ monitors' = [monitors EXCEPT ![t] = <<store[o[1]]>>]
                 /\ i' = [i EXCEPT ![t] = 1]
                 /\ pc' = [pc EXCEPT ![t] = "check"]
                 /\ UNCHANGED <<resp, new_text, exc, sent, failed>>
       \/ Reply(t, 500)
    /\ UNCHANGED <<shared, WORKER_SECRET>>

\* process_once: monitors = get_all_monitors(); return if there are none
get_all_monitors(t) ==
    /\ pc[t] = "list"
    /\ \/ \E o \in Orders(DOMAIN store) :
            IF DOMAIN store = {}
            THEN Reply(t, 200)
            ELSE /\ monitors' = [monitors EXCEPT ![t] = [k \in DOMAIN o |-> store[o[k]]]]
                 /\ i' = [i EXCEPT ![t] = 1]
                 /\ pc' = [pc EXCEPT ![t] = "check"]
                 /\ UNCHANGED <<resp, new_text, exc, sent, failed>>
       \/ Reply(t, 500)
    /\ UNCHANGED <<shared, WORKER_SECRET>>

\* the record the loop of thread t is at
m(t) == monitors[t][i[t]]

\* one iteration up to the comparison: fetch_html, extract_with_selector and
\* the branch chosen; an exception of either ends the iteration
check(t) ==
    /\ pc[t] = "check"
    /\ \/ /\ exc' = [exc EXCEPT ![t] = "fetch"]
          /\ failed' = [failed EXCEPT ![t] = @ \cup {m(t).id}]
          /\ pc' = [pc EXCEPT ![t] = "next"]
          /\ UNCHANGED <<new_text, fetched>>
       \/ \E html \in Htmls :
            LET got == extract_with_selector(html, m(t).css_selector) IN
            IF got.raised
            THEN /\ exc' = [exc EXCEPT ![t] = "extract"]
                 /\ pc' = [pc EXCEPT ![t] = "next"]
                 /\ UNCHANGED <<new_text, failed, fetched>>
            ELSE LET branch == compare(last_content_of(m(t)), got.text) IN
                 /\ new_text' = [new_text EXCEPT ![t] = got.text]
                 /\ fetched' = [id \in DOMAIN fetched |->
                        IF id = m(t).id THEN got.text ELSE fetched[id]]
                 /\ pc' = [pc EXCEPT ![t] =
                        CASE branch = "first" -> "update"
                          [] branch = "changed" -> "notify"
                          [] OTHER -> "next"]
                 /\ UNCHANGED <<exc, failed>>
    /\ UNCHANGED <<store, next_id, now, ownerKey, pending, WORKER_SECRET, resp,
                    monitors, i, sent>>

\* the CHANGED branch: notify_placeholder(email, url, last_content, new_text)
notify(t) ==
    /\ pc[t] = "notify"
    /\ sent' = [sent EXCEPT ![t] =
            Append(@, notify_placeholder(m(t).user_email, m(t).url,
                                         last_content_of(m(t)), new_text[t]))]
    /\ pc' = [pc EXCEPT ![t] = "update"]
    /\ UNCHANGED <<shared, WORKER_SECRET, resp, monitors, i, new_text, exc, failed>>

\* the store write whose failure leaves the content written and the timestamp
\* not
update_torn(t) ==
    /\ pc[t] = "update"
    /\ \/ \E ts \in Readings :
            /\ store' = update_monitor_content(store, m(t).id, new_text[t], ts)
            /\ now' = ts
            /\ pending' = [id \in DOMAIN pending |->
                    IF id = m(t).id THEN NoAlert ELSE pending[id]]
            /\ UNCHANGED <<exc, fetched>>
       \/ /\ exc' = [exc EXCEPT ![t] = "store"]
          /\ fetched' = [id \in DOMAIN fetched |->
                IF id = m(t).id THEN None ELSE fetched[id]]
          /\ pending' = [id \in DOMAIN pending |->
                IF id = m(t).id /\ sent[t] # << >> THEN sent[t][1] ELSE pending[id]]
          /\ store' = update_content_only(store, m(t).id, new_text[t], now)
          /\ UNCHANGED now
    /\ pc' = [pc EXCEPT ![t] = "next"]
    /\ UNCHANGED <<next_id, ownerKey, WORKER_SECRET, resp, monitors, i, new_text,
                    sent, failed>>

\* update_monitor_content(mid, new_text), or the exception it raises
update(t) ==
    /\ pc[t] = "update"
    /\ \/ \E ts \in Readings :
            /\ store' = update_monitor_content(store, m(t).id, new_text[t], ts)
            /\ now' = ts
            /\ pending' = [id \in DOMAIN pending |->
                    IF id = m(t).id THEN NoAlert ELSE pending[id]]
            /\ UNCHANGED <<exc, fetched>>
       \/ /\ exc' = [exc EXCEPT ![t] = "store"]
          /\ fetched' = [id \in DOMAIN fetched |->
                IF id = m(t).id THEN None ELSE fetched[id]]
          /\ pending' = [id \in DOMAIN pending |->
                IF id = m(t).id /\ sent[t] # << >> THEN sent[t][1] ELSE pending[id]]
          /\ UNCHANGED <<store, now>>
    /\ pc' = [pc EXCEPT ![t] = "next"]
    /\ UNCHANGED <<next_id, ownerKey, WORKER_SECRET, resp, monitors, i, new_text,
                    sent, failed>>

\* the loop with its try around the whole of it: an exception ends the batch
next_abort(t) ==
    /\ pc[t] = "next"
    /\ IF i[t] < Len(monitors[t]) /\ exc[t] = "none"
       THEN /\ i' = [i EXCEPT ![t] = @ + 1]
            /\ pc' = [pc EXCEPT ![t] = "check"]
            /\ new_text' = [new_text EXCEPT ![t] = None]
            /\ exc' = [exc EXCEPT ![t] = "none"]
            /\ sent' = [sent EXCEPT ![t] = << >>]
            /\ UNCHANGED <<resp, monitors, failed>>
       ELSE Reply(t, IF exc[t] = "none" THEN 200 ELSE 500)
    /\ UNCHANGED <<shared, WORKER_SECRET>>

\* the head of the for loop: the next record, or "Process complete" and the
\* endpoint's answer
next(t) ==
    /\ pc[t] = "next"
    /\ IF i[t] < Len(monitors[t])
       THEN /\ i' = [i EXCEPT ![t] = @ + 1]
            /\ pc' = [pc EXCEPT ![t] = "check"]
            /\ new_text' = [new_text EXCEPT ![t] = None]
            /\ exc' = [exc EXCEPT ![t] = "none"]
            /\ sent' = [sent EXCEPT ![t] = << >>]
            /\ UNCHANGED <<resp, monitors, failed>>
       ELSE Reply(t, 200)
    /\ UNCHANGED <<shared, WORKER_SECRET>>

\* the requests and steps of the threads T, with ids up to cap
NextOver(T, cap) ==
    \/ get_monitors_endpoint
    \/ \E monitor \in MonitorInputs : add_monitor_endpoint(monitor, cap)
    \/ \E id \in 1..cap, key \in OwnerKeys : delete_monitor_endpoint(id, key)
    \/ \E t \in T, s \in SuppliedSecrets : run_worker_endpoint(t, s)
    \/ \E t \in T : get_all_monitors(t)
    \/ \E t \in T : check(t)
    \/ \E t \in T : notify(t)
    \/ \E t \in T : update(t)
    \/ \E t \in T : next(t)

\* the API as deployed: requests to POST /worker/run handled by the threads
\* of the pool, so that batches can overlap
Next == NextOver(Threads, MaxPoolId)

Spec == Init /\ [][Next]_vars

\* the same API when POST /worker/run is never called before the previous
\* call has answered: one batch at a time, over several records
NextBatch == NextOver({"t1"}, MaxId)

SpecBatch == Init /\ [][NextBatch]_vars

\* ------------------------------------------------------------------ worker.py
\* "In Phase 1 we run once and exit. Set >0 to loop."
CHECK_INTERVAL_SECONDS == 0

\* the main thread of the worker process
Worker == "t1"

\* a monitor that an earlier run has checked, as that run left it
Checked ==
    [id |-> 1, url |-> "u1", css_selector |-> "#price", user_email |-> "e1",
     last_content |-> <<"a">>, last_checked_at |-> 0]

\* python worker.py is started, beside an API that answers the CRUD requests,
\* on a table that is empty or holds a monitor checked by an earlier run
InitWorker ==
    /\ \/ /\ store = << >>
          /\ next_id = 1
          /\ ownerKey = << >>
          /\ fetched = << >>
          /\ pending = << >>
       \/ /\ store = <<Checked>>
          /\ next_id = 2
          /\ ownerKey = <<"k1">>
          /\ fetched = <<Checked.last_content>>
          /\ pending = <<NoAlert>>
    /\ now = 0
    /\ WORKER_SECRET \in ConfiguredSecrets
    /\ resp = NoResponse
    /\ pc = [t \in Threads |-> IF t = Worker THEN "main" ELSE "idle"]
    /\ monitors = [t \in Threads |-> << >>]
    /\ i = [t \in Threads |-> 0]
    /\ new_text = [t \in Threads |-> None]
    /\ exc = [t \in Threads |-> "none"]
    /\ sent = [t \in Threads |-> << >>]
    /\ failed = [t \in Threads |-> {}]

\* process_once is left for position p of main: by its return, or by an
\* exception nothing catches
Return(t, p) ==
    /\ pc' = [pc EXCEPT ![t] = p]
    /\ monitors' = [monitors EXCEPT ![t] = << >>]
    /\ i' = [i EXCEPT ![t] = 0]
    /\ new_text' = [new_text EXCEPT ![t] = None]
    /\ exc' = [exc EXCEPT ![t] = "none"]
    /\ sent' = [sent EXCEPT ![t] = << >>]
    /\ failed' = [failed EXCEPT ![t] = {}]
    /\ UNCHANGED resp

\* main: create_schema(), which db.py lets raise, then the call of process_once
main(t) ==
    /\ pc[t] = "main"
    /\ \/ pc' = [pc EXCEPT ![t] = "list"]
       \/ pc' = [pc EXCEPT ![t] = "exited"]
    /\ UNCHANGED <<shared, WORKER_SECRET, resp, monitors, i, new_text, exc, sent, failed>>

\* worker.py's process_once: monitors = get_all_monitors(); return if there
\* are none
worker_get_all_monitors(t) ==
    /\ pc[t] = "list"
    /\ \/ \E o \in Orders(DOMAIN store) :
            IF DOMAIN store = {}
            THEN Return(t, "done")
            ELSE /\ monitors' = [monitors EXCEPT ![t] = [k \in DOMAIN o |-> store[o[k]]]]
                 /\ i' = [i EXCEPT ![t] = 1]
                 /\ pc' = [pc EXCEPT ![t] = "check"]
                 /\ UNCHANGED <<resp, new_text, exc, sent, failed>>
       \/ Return(t, "exited")
    /\ UNCHANGED <<shared, WORKER_SECRET>>

\* the head of worker.py's for loop: the next record, or the return to main
worker_next(t) ==
    /\ pc[t] = "next"
    /\ IF i[t] < Len(monitors[t])
       THEN /\ i' = [i EXCEPT ![t] = @ + 1]
            /\ pc' = [pc EXCEPT ![t] = "check"]
            /\ new_text' = [new_text EXCEPT ![t] = None]
            /\ exc' = [exc EXCEPT ![t] = "none"]
            /\ sent' = [sent EXCEPT ![t] = << >>]
            /\ UNCHANGED <<resp, monitors, failed>>
       ELSE Return(t, "done")
    /\ UNCHANGED <<shared, WORKER_SECRET>>

\* main after process_once has returned: time.sleep and the next process_once
\* if CHECK_INTERVAL_SECONDS > 0, else the end of main
main_loop(t) ==
    /\ pc[t] = "done"
    /\ pc' = [pc EXCEPT ![t] = IF CHECK_INTERVAL_SECONDS > 0 THEN "list" ELSE "exited"]
    /\ UNCHANGED <<shared, WORKER_SECRET, resp, monitors, i, new_text, exc, sent, failed>>

\* the steps of the worker process; the iteration of worker.py's loop
\* (lines 26-47) is that of api.py's
WorkerStep ==
    \/ main(Worker)
    \/ worker_get_all_monitors(Worker)
    \/ check(Worker)
    \/ notify(Worker)
    \/ update(Worker)
    \/ worker_next(Worker)
    \/ main_loop(Worker)

NextWorker ==
    \/ \E monitor \in MonitorInputs : add_monitor_endpoint(monitor, MaxId)
    \/ \E id \in 1..MaxId, key \in OwnerKeys : delete_monitor_endpoint(id, key)
    \/ main(Worker)
    \/ worker_get_all_monitors(Worker)
    \/ check(Worker)
    \/ notify(Worker)
    \/ update(Worker)
    \/ worker_next(Worker)
    \/ main_loop(Worker)

\* the worker process, which runs as long as it has a step to take
SpecWorker == InitWorker /\ [][NextWorker]_vars /\ WF_vars(WorkerStep)

\* ------------------------------------------------------------------ claims
\* the stored lastContent the current check of thread t works from
Old(t) == m(t).last_content

\* a text that is neither absent nor empty
NonEmpty(text) == text # None /\ text # << >>

\* absent, or empty once whitespace is trimmed
Virgin(text) == text = None \/ Strip(text) = << >>

\* thread t takes the step that leaves position p
Leaves(t, p) == pc[t] = p /\ pc'[t] # p

\* the step of t in which its fetch succeeds and a text is extracted
Extracts(t) == Leaves(t, "check") /\ new_text'[t] # None

\* the current record of t is still in the store
Stored(t) == m(t).id \in DOMAIN store

\* the one notification a CHANGED check of t is to send
Alert(t) ==
    [email |-> m(t).user_email, url |-> m(t).url, old |-> Old(t), new |-> new_text[t]]

C1_Step(t) ==
    /\ (Extracts(t) /\ NonEmpty(Old(t)) /\ new_text'[t] # Old(t))
          => /\ pc'[t] = "notify"
             /\ sent'[t] = << >>
             /\ store' = store
    /\ Leaves(t, "notify")
          => /\ sent'[t] = <<Alert(t)>>
             /\ store' = store
             /\ pc'[t] = "update"
    /\ (Leaves(t, "update") /\ NonEmpty(Old(t)))
          => /\ sent[t] = <<Alert(t)>>
             /\ sent'[t] = sent[t]
             /\ pc'[t] = "next"
             /\ (exc'[t] = "none" /\ Stored(t))
                   => store'[m(t).id].last_content = new_text[t]

\* C1 (CHANGED): a check that read a non-empty lastContent and extracts a
\* different text goes on to notify; the notification step prints the one
\* notification (ownerEmail, targetUrl, old = the lastContent read, new = the
\* extracted text) and writes nothing; the store write comes after it, with
\* exactly that one notification printed, and once the write has committed on
\* the record its stored lastContent is the extracted text.
C1_Changed == [][\A t \in Threads : C1_Step(t)]_vars

\* a CHANGED check that has notified once and written the extracted text
C1_Witness ==
    \E t \in Threads :
        /\ pc[t] = "next" /\ exc[t] = "none"
        /\ NonEmpty(Old(t)) /\ new_text[t] # None /\ new_text[t] # Old(t)
        /\ sent[t] = <<Alert(t)>>
        /\ Stored(t) /\ store[m(t).id].last_content = new_text[t]

C2_Step(t) ==
    /\ (Extracts(t) /\ Virgin(Old(t)))
          => /\ pc'[t] = "update"
             /\ sent'[t] = << >>
             /\ store' = store
    /\ (Leaves(t, "update") /\ Virgin(Old(t)))
          => /\ sent[t] = << >> /\ sent'[t] = << >>
             /\ pc'[t] = "next"
             /\ (exc'[t] = "none" /\ Stored(t))
                   => /\ store'[m(t).id].last_content = new_text[t]
                      /\ store'[m(t).id].last_checked_at = now'

\* C2 (FIRST_SNAPSHOT): a check that read an absent or blank lastContent and
\* extracts any text at all goes straight to the store write, and that write,
\* once committed on the record, sets lastContent to the extracted text and
\* lastCheckedAt to the clock's reading in the same step; the check prints no
\* notification.
C2_FirstSnapshot == [][\A t \in Threads : C2_Step(t)]_vars

\* a first snapshot written without a notification
C2_Witness ==
    \E t \in Threads :
        /\ pc[t] = "next" /\ exc[t] = "none"
        /\ Virgin(Old(t)) /\ new_text[t] = <<"a">>
        /\ sent[t] = << >>
        /\ Stored(t) /\ store[m(t).id].last_content = new_text[t]
        /\ store[m(t).id].last_checked_at = now

C3_Step(t) ==
    (Extracts(t) /\ NonEmpty(Old(t)) /\ new_text'[t] = Old(t))
        => /\ pc'[t] = "next"
           /\ exc'[t] = "none"
           /\ sent'[t] = << >>
           /\ store' = store

\* C3 (UNCHANGED): a check that read a non-empty lastContent and extracts the
\* same text ends in that step: the store (lastContent and lastCheckedAt of
\* every row) is left as it was and no notification is printed.
C3_Unchanged == [][\A t \in Threads : C3_Step(t)]_vars

\* a check that found the text it had stored, from whatever markup
C3_Witness ==
    \E t \in Threads :
        /\ pc[t] = "next" /\ exc[t] = "none"
        /\ NonEmpty(Old(t)) /\ new_text[t] = Old(t)
        /\ sent[t] = << >>
        /\ Stored(t) /\ store[m(t).id] = m(t)

\* the position a check that extracted a text is to go to, by the rule of the
\* per-record state machine
Expected(old, text) ==
    IF Virgin(old) THEN "update" ELSE IF text # old THEN "notify" ELSE "next"

C4_Step(t) ==
    /\ (Leaves(t, "check") /\ exc'[t] = "fetch")
          => /\ store' = store
             /\ sent'[t] = << >>
             /\ pc'[t] = "next"
             /\ m(t).id \in failed'[t]
    /\ \A id \in failed[t] \cap DOMAIN store :
          (id \notin DOMAIN store' \/ store'[id] # store[id])
              => pc'[t] = pc[t] /\ failed'[t] = failed[t]
    /\ (Leaves(t, "notify") \/ Leaves(t, "update")) => m(t).id \notin failed[t]
    /\ Leaves(t, "next")
          => IF i[t] < Len(monitors[t])
             THEN pc'[t] = "check" /\ i'[t] = i[t] + 1 /\ monitors'[t] = monitors[t]
             ELSE pc'[t] = "idle"
    /\ (pc[t] # "idle" /\ pc'[t] = "idle" /\ monitors[t] # << >>)
          => pc[t] = "next" /\ i[t] = Len(monitors[t])
    /\ (Extracts(t) /\ failed[t] # {})
          => pc'[t] = Expected(Old(t), new_text'[t])

\* C4 (fetch-failure isolation): the step in which a fetch fails writes
\* nothing and prints nothing and ends that record's check; no later step of
\* the batch changes the row (lastContent, lastCheckedAt) of a record whose
\* fetch failed in it, and the batch neither notifies for nor writes such a
\* record; after a check the loop goes to the next listed record and the
\* batch ends only after the last one; and a check that follows a failure
\* takes the branch it would have taken without it.
C4_FetchFailureIsolation == [][\A t \in Threads : C4_Step(t)]_vars

\* a batch of two whose first fetch failed and whose second record was written
C4_Witness ==
    \E t \in Threads :
        /\ pc[t] = "next" /\ i[t] = 2 /\ exc[t] = "none"
        /\ failed[t] = {monitors[t][1].id}
        /\ monitors[t][1].id \in DOMAIN store
        /\ store[monitors[t][1].id] = monitors[t][1]
        /\ new_text[t] # None
        /\ Stored(t) /\ store[m(t).id].last_content = new_text[t]
        /\ store[m(t).id] # m(t)

\* the positions in which a check is in flight
InCheck == {"check", "notify", "update"}

\* C5 (batch mutual exclusion), as claimed: at most one thread is inside
\* process_once at any time.
C5_OneBatchInFlight == Cardinality({t \in Threads : pc[t] # "idle"}) <= 1

C6_Step(t) ==
    (Leaves(t, "update") /\ exc'[t] = "none" /\ Stored(t))
        => store[m(t).id] = m(t)

\* C6 (per-record exclusion), as claimed: no two threads are in a check of the
\* same record id at once, and when a check writes a record, the row is still
\* the one the check read (no other write came in between).
C6_OneCheckPerRecord ==
    [][ /\ \A t, u \in Threads :
            (t # u /\ pc'[t] \in InCheck /\ pc'[u] \in InCheck)
                => monitors'[t][i'[t]].id # monitors'[u][i'[u]].id
        /\ \A t \in Threads : C6_Step(t) ]_vars

\* no check of record id is in flight
Quiet(id) == \A t \in Threads : pc[t] \in InCheck => m(t).id # id

\* C7 (stored-content invariant), as claimed: while no check of a record is in
\* flight, its lastContent is absent or empty, or is the text of the record's
\* most recent successful fetch (a fetch whose store write failed aside).
C7_StoredContent ==
    \A id \in DOMAIN store :
        Quiet(id) => \/ Virgin(store[id].last_content)
                     \/ store[id].last_content = fetched[id]
                     \/ fetched[id] = None

C8_Row(id) ==
    /\ store'[id].last_checked_at >= store[id].last_checked_at
    /\ store'[id] # store[id]
          => \E t \in Threads :
                /\ Leaves(t, "update") /\ m(t).id = id
                /\ store'[id].last_content = new_text[t]
                /\ store'[id].last_checked_at = now'
                /\ now' >= now

C8_Read(t) ==
    (Leaves(t, "list") /\ pc'[t] = "check")
        => \A k \in 1..Len(monitors'[t]) :
              /\ monitors'[t][k].id \in DOMAIN store
              /\ monitors'[t][k] = store[monitors'[t][k].id]

Configured == WORKER_SECRET # None /\ WORKER_SECRET # << >>

\* the step touches no record, listing, check or notification
Untouched ==
    /\ store' = store /\ now' = now
    /\ pc' = pc /\ monitors' = monitors /\ new_text' = new_text /\ sent' = sent

C9_Request(t, supplied) ==
    /\ pc'[t] = "list" <=> (Configured /\ supplied = WORKER_SECRET)
    /\ (Configured /\ supplied # WORKER_SECRET) => (resp' = 403 /\ Untouched)
    /\ ~Configured => (resp' = 500 /\ Untouched)

\* C9 (on-demand trigger gating): a request POST /worker/run?secret=s starts
\* a batch exactly when a secret is configured and s equals it; with a
\* configured secret and another s it is answered 403, without a configured
\* secret 500, and in both cases the step touches nothing; and no thread
\* enters process_once while no secret is configured.
C9_TriggerGating ==
    [][ /\ \A t \in Threads, s \in SuppliedSecrets :
            run_worker_endpoint(t, s) => C9_Request(t, s)
        /\ \A t \in Threads : (pc[t] = "idle" /\ pc'[t] # "idle") => Configured ]_vars

\* a trigger was answered 403 with records in the store
C9_Witness == resp = 403 /\ Configured /\ DOMAIN store # {}

\* C10 (owner-scoped delete), as claimed: a DELETE of an existing id with
\* another ownerKey than the record's removes nothing and is answered 404 (or
\* 500 when the store fails), as the DELETE of an id not in the store is.
C10_OwnerScopedDelete ==
    [][ \A id \in 1..MaxPoolId, key \in OwnerKeys :
            (delete_monitor_endpoint(id, key) /\ id \in DOMAIN store /\ key # ownerKey[id])
                => store' = store /\ resp' \in {404, 500} ]_vars

\* C11 (periodic scheduling), as claimed: whenever a batch of the scheduler
\* started at process startup has completed, another batch is eventually
\* started.
C11_PeriodicScheduling == (pc[Worker] = "done") ~> (pc[Worker] = "list")

\* the ids the sequence has handed out that are no longer in the store
Deleted == {id \in 1..MaxId : id < next_id /\ id \notin DOMAIN store}

C12_Step ==
    /\ \A id \in Deleted : id \notin DOMAIN store'
    /\ next_id' >= next_id
    /\ \A id \in DOMAIN store' \ DOMAIN store : id = next_id /\ next_id' = next_id + 1
    /\ \A id \in 1..MaxId :
          ((\E key \in OwnerKeys : delete_monitor_endpoint(id, key)) /\ resp' = 200)
              => id \in DOMAIN store /\ id \notin DOMAIN store'
    /\ \A t \in Threads :
          (Leaves(t, "update") /\ ~Stored(t)) => store' = store

\* C12 (deletion is final): an id that was handed out and is no longer in the
\* store is in the store in no later state: the store write of a batch that
\* had listed the record before its deletion leaves the store as it is, and
\* an insert takes the next value of the sequence, which never goes back; a
\* DELETE answered 200 has removed the record.
C12_DeletionIsFinal == [][C12_Step]_vars

\* a batch stands after the committed store write of a record it had listed,
\* the record is deleted, and a later record has taken the next id
C12_Witness ==
    \E t \in Threads :
        /\ pc[t] = "next" /\ exc[t] = "none" /\ new_text[t] # None
        /\ compare(last_content_of(m(t)), new_text[t]) # "unchanged"
        /\ m(t).id = 1 /\ DOMAIN store = {2}

C13_Step(t) ==
    (Leaves(t, "check") /\ exc'[t] # "fetch" /\ m(t).css_selector \in BadSelectors)
        => /\ exc'[t] = "none"
           /\ new_text'[t] = << >>
           /\ pc'[t] = Expected(Old(t), << >>)

\* C13 (extractor failure degrades to empty text), as claimed: a check whose
\* fetch succeeds and whose extraction raises goes on as if the extracted text
\* were "": no exception ends it, a virgin record goes to its first snapshot
\* of "" and a record with a non-empty lastContent to CHANGED with new = "".
C13_ExtractorFallback == [][\A t \in Threads : C13_Step(t)]_vars

C14_Step(t) ==
    /\ (Leaves(t, "update") /\ exc'[t] = "store")
          => /\ store' = store
             /\ sent'[t] = sent[t]
             /\ pc'[t] = "next"
    /\ (Leaves(t, "next") /\ exc[t] = "store")
          => IF i[t] < Len(monitors[t])
             THEN pc'[t] = "check" /\ i'[t] = i[t] + 1 /\ monitors'[t] = monitors[t]
             ELSE pc'[t] = "idle"
    /\ (pc[t] # "idle" /\ pc'[t] = "idle" /\ monitors[t] # << >>)
          => pc[t] = "next" /\ i[t] = Len(monitors[t])
    /\ Leaves(t, "update")
          => /\ DOMAIN store' = DOMAIN store
             /\ \A id \in DOMAIN store : id # m(t).id => store'[id] = store[id]
    /\ (pc[t] \in {"check", "notify", "next"} /\ pc'[t] # pc[t]) => store' = store

\* a batch has every record once in its listing
C14_Once(t) ==
    \A a, b \in 1..Len(monitors[t]) : a # b => monitors[t][a].id # monitors[t][b].id

\* C14 (store-write failure isolation): the step in which a store write fails
\* changes no row (lastContent and lastCheckedAt stay as they were) and ends
\* that record's check; the loop then goes to the next listed record, and the
\* batch ends only after the last one; and the rest of the batch leaves the
\* record alone: a listing holds every record once, a store write changes the
\* row of the record being checked only, and no other step of a batch writes.
C14_StoreFailureIsolation ==
    /\ [](\A t \in Threads : C14_Once(t))
    /\ [][\A t \in Threads : C14_Step(t)]_vars

\* a batch of two: the store write of the first record, written in an earlier
\* batch, failed and left the row as listed; the second record was written
C14_Witness ==
    \E t \in Threads :
        /\ pc[t] = "next" /\ i[t] = 2 /\ exc[t] = "none"
        /\ monitors[t][1].last_content # None
        /\ monitors[t][1].id \in DOMAIN store
        /\ fetched[monitors[t][1].id] = None
        /\ store[monitors[t][1].id] = monitors[t][1]
        /\ new_text[t] # None
        /\ Stored(t) /\ store[m(t).id].last_content = new_text[t]
        /\ store[m(t).id] # m(t)

C15_Step(t) ==
    /\ (Extracts(t) /\ NonEmpty(Old(t)) /\ new_text'[t] = << >>)
          => pc'[t] = "notify" /\ sent'[t] = << >> /\ store' = store
    /\ (Leaves(t, "notify") /\ new_text[t] = << >>)
          => /\ sent'[t] = <<[email |-> m(t).user_email, url |-> m(t).url,
                              old |-> Old(t), new |-> << >>]>>
             /\ NonEmpty(Old(t))
             /\ pc'[t] = "update"
    /\ (Leaves(t, "update") /\ new_text[t] = << >> /\ exc'[t] = "none" /\ Stored(t))
          => store'[m(t).id].last_content = << >>
    /\ (Extracts(t) /\ ~NonEmpty(Old(t)))
          => pc'[t] = "update" /\ sent'[t] = << >>
    /\ (Leaves(t, "update") /\ ~NonEmpty(Old(t)))
          => sent[t] = << >> /\ sent'[t] = << >>

\* C15 (empty is a distinct value): a check that read a non-empty lastContent
\* and extracts "" goes to CHANGED: one notification with old = the
\* lastContent read and new = "", then the write that makes lastContent "";
\* a check that read an absent or empty lastContent goes to its first
\* snapshot without a notification whatever text it extracts, "" included.
C15_EmptyIsAValue == [][\A t \in Threads : C15_Step(t)]_vars

\* one batch of two: the first record went from "a" to "", the second, stored
\* as "", was written again as a first snapshot of ""
C15_Witness ==
    \E t \in Threads :
        /\ pc[t] = "next" /\ i[t] = 2 /\ exc[t] = "none"
        /\ monitors[t][1].last_content = <<"a">>
        /\ monitors[t][1].id \in DOMAIN store
        /\ store[monitors[t][1].id].last_content = << >>
        /\ Old(t) = << >> /\ new_text[t] = << >> /\ sent[t] = << >>
        /\ Stored(t)
        /\ store[m(t).id].last_content = << >>
        /\ store[m(t).id].last_checked_at > m(t).last_checked_at

\* the ids of a listing
Ids(listing) == {listing[k].id : k \in 1..Len(listing)}

C16_Step(t) ==
    /\ (Leaves(t, "list") /\ pc'[t] = "check")
          => /\ Ids(monitors'[t]) = DOMAIN store
             /\ Len(monitors'[t]) = Cardinality(DOMAIN store)
             /\ i'[t] = 1
    /\ (Leaves(t, "list") /\ pc'[t] = "idle" /\ resp' = 200) => DOMAIN store = {}
    /\ (pc[t] # "list" /\ pc[t] # "idle") => monitors'[t] = monitors[t] \/ pc'[t] = "idle"
    /\ Leaves(t, "check")
          => /\ i'[t] = i[t]
             /\ pc'[t] \in {"notify", "update", "next"}
             /\ \/ exc'[t] # "none"
                \/ new_text'[t] # None
    /\ (pc[t] \in {"notify", "update"} /\ pc'[t] # pc[t])
          => i'[t] = i[t] /\ pc'[t] \in {"update", "next"}
    /\ Leaves(t, "next")
          => IF i[t] < Len(monitors[t])
             THEN pc'[t] = "check" /\ i'[t] = i[t] + 1
             ELSE pc'[t] = "idle"
    /\ (pc[t] # "check" /\ pc'[t] = "check") => pc[t] \in {"list", "next"}

\* C16 (every record, once per batch): a listing holds every row of the store
\* exactly once, whatever earlier batches did to it; the loop starts at the
\* first listed record, makes one fetch attempt for the record it is at (the
\* step that leaves "check", ending in an exception or an extracted text),
\* moves on by one record after each check, and ends only after the last.
C16_EveryRecordOnce == [][\A t \in Threads : C16_Step(t)]_vars

\* a batch of two in which a record whose store write had failed in an
\* earlier batch got its fetch attempt, which failed this time
C16_Witness ==
    \E t \in Threads :
        /\ pc[t] = "next" /\ i[t] = 2 /\ Len(monitors[t]) = 2
        /\ exc[t] = "fetch" /\ m(t).id \in failed[t]
        /\ Old(t) # None
        /\ Stored(t) /\ fetched[m(t).id] = None

\* every notification printed has a non-blank old text and another new text
C17_Sent ==
    \A t \in Threads : \A k \in 1..Len(sent[t]) :
        /\ sent[t][k].old # None
        /\ Strip(sent[t][k].old) # << >>
        /\ sent[t][k].new # sent[t][k].old

C17_Step(t) ==
    /\ (Extracts(t) /\ Old(t) = << >> /\ new_text'[t] # << >>)
          => pc'[t] = "update" /\ sent'[t] = << >>
    /\ (Leaves(t, "update") /\ Old(t) = << >>) => sent'[t] = << >>
    /\ Len(sent'[t]) <= 1

\* C17 (notification invariant): in every state each notification printed
\* carries an old text that is not empty after trimming and a new text that
\* differs from it; a check that read the lastContent "" and extracts a
\* non-empty text writes it as a first snapshot and prints nothing; and no
\* check prints more than one notification.
C17_NotificationInvariant ==
    /\ []C17_Sent
    /\ [][\A t \in Threads : C17_Step(t)]_vars

\* a record stored as "" whose text "a" has reappeared: written, nothing printed
C17_Witness ==
    \E t \in Threads :
        /\ pc[t] = "next" /\ exc[t] = "none"
        /\ Old(t) = << >> /\ new_text[t] = <<"a">> /\ sent[t] = << >>
        /\ Stored(t) /\ store[m(t).id].last_content = <<"a">>

\* the notification of record id that is still owed a committed write
Owed(id) == id \in DOMAIN pending /\ pending[id] # NoAlert

C18_Step(t) ==
    /\ (Leaves(t, "update") /\ exc'[t] = "store" /\ NonEmpty(Old(t)))
          => /\ sent[t] = <<Alert(t)>>
             /\ store' = store
             /\ Stored(t) => pending'[m(t).id] = Alert(t)
    /\ (Extracts(t) /\ Owed(m(t).id) /\ new_text'[t] = pending[m(t).id].new)
          => /\ Old(t) = pending[m(t).id].old
             /\ pc'[t] = "notify"
    /\ (Leaves(t, "notify") /\ Owed(m(t).id) /\ new_text[t] = pending[m(t).id].new)
          => sent'[t] = <<pending[m(t).id]>>

C18_Change(id) ==
    (NonEmpty(store[id].last_content) /\ store'[id].last_content # store[id].last_content)
        => \E t \in Threads :
              /\ Leaves(t, "update") /\ m(t).id = id
              /\ sent[t] = <<[email |-> store[id].user_email, url |-> store[id].url,
                              old |-> store[id].last_content,
                              new |-> store'[id].last_content]>>

\* the record keeps the old text as long as the notification is owed a write
C18_Kept == \A id \in DOMAIN store : Owed(id) => store[id].last_content = pending[id].old

\* C18 (at-least-once notification), as claimed: when the store write of a
\* CHANGED check fails, its notification (old, new) has been printed and the
\* record keeps the old lastContent; a later check of the record that
\* extracts the same new text reads that old text, goes to CHANGED and prints
\* the same notification again; and no step replaces a non-empty lastContent
\* by another text unless it is the store write of a check that has printed
\* the notification for exactly that change.
C18_AtLeastOnce ==
    /\ []C18_Kept
    /\ [][ /\ \A t \in Threads : C18_Step(t)
           /\ \A id \in DOMAIN store \cap DOMAIN store' : C18_Change(id) ]_vars

====
